---- MODULE Spec2Model ----
(***************************************************************************)
(* Model of the image-generation proxy (leox12x/image-api):                *)
(*   - src/middleware/validation.js : validatePrompt, validateRequestRate  *)
(*   - src/services/cloudflare.js   : generateImage and its helpers,       *)
(*                                    isValidPrompt                        *)
(*   - src/routes/generate.js       : POST /generate, GET /generate/:prompt*)
(*                                                                         *)
(* Five specifications share the module:                                   *)
(*   SpecRate   the sliding-window limiter validateRequestRate, called for *)
(*              one client at moments of a non-decreasing millisecond      *)
(*              clock;                                                     *)
(*   SpecPrompt validatePrompt applied to request bodies;                  *)
(*   Spec       the two routes, the upstream call being the point where a  *)
(*              request is suspended and other requests run;               *)
(*   SpecBurst  the POST route observed with a clock and a counter of one  *)
(*              client's requests;                                         *)
(*   SpecModes  the two routes given one and the same prompt.              *)
(***************************************************************************)
EXTENDS Integers, Sequences, FiniteSets, TLC

VARIABLES
    now,             \* Date.now(), milliseconds
    rateLimitStore,  \* global.rateLimitStore: client IP -> timestamps
    admitted,        \* history: per IP, the latest admitted timestamps
    rateResponse,    \* history: the outcome of the latest validateRequestRate
    reqBody,         \* req.body.prompt of the request validatePrompt is given
    promptResponse,  \* what validatePrompt did with it
    env,             \* process.env: the two Cloudflare credentials
    inflight,        \* the requests awaiting the upstream call
    served,          \* history: the request served latest and its response
    burst,           \* history: the client's first POSTs with a valid prompt
    arrival,         \* history: what the route did with the latest of them
    twin             \* history: what each route did with one and the same prompt

rateVars == <<rateLimitStore, admitted, rateResponse>>
promptVars == <<reqBody, promptResponse>>
routeVars == <<env, inflight, served>>
burstVars == <<burst, arrival>>
modeVars == <<twin>>
vars == <<now, rateVars, promptVars, routeVars, burstVars, modeVars>>

(***************************************************************************)
(* Bounds of the model.                                                    *)
(***************************************************************************)
MaxNow == 120001
MaxInFlight == 2

(***************************************************************************)
(* validateRequestRate: src/middleware/validation.js lines 96-133.         *)
(***************************************************************************)
windowMs == 60000
maxRequests == 10

ClientIPs == {"10.0.0.1"}

\* The clock advances by one of these amounts between two calls.
ClockSteps == {29999, 30000, 30001}

\* Math.ceil(x / d) for integers x and d > 0.
MathCeilDiv(x, d) == -((-x) \div d)

\* global.rateLimitStore.get(clientIP) || []
clientRequests(clientIP) == rateLimitStore[clientIP]

\* The filter with the boundary kept: an entry exactly windowMs old stays.
InWindow_Inclusive(timestamp) == now - timestamp <= windowMs

InWindow(timestamp) == now - timestamp < windowMs

\* The filter forgotten: the entries outside the window stay.
validRequests_Unfiltered(clientIP) == clientRequests(clientIP)

\* clientRequests.filter(timestamp => now - timestamp < rateLimit.windowMs)
validRequests(clientIP) == SelectSeq(clientRequests(clientIP), InWindow)

\* The check off by one: the limit counts as reached one request late.
LimitReached_OffByOne(clientIP) == Len(validRequests(clientIP)) > maxRequests

LimitReached(clientIP) == Len(validRequests(clientIP)) >= maxRequests

retryAfter(clientIP) ==
    MathCeilDiv(validRequests(clientIP)[1] + windowMs - now, 1000)

\* The latest maxRequests + 1 admitted timestamps of a key.
Remember(log, t) ==
    LET all == Append(log, t)
    IN  IF Len(all) > maxRequests + 1 THEN Tail(all) ELSE all

validateRequestRate(clientIP) ==
    /\ IF LimitReached(clientIP)
       THEN /\ rateResponse' = [ip |-> clientIP, at |-> now, next |-> FALSE,
                                status |-> 429,
                                retryAfter |-> retryAfter(clientIP),
                                fields |-> {"success", "error", "message",
                                            "retryAfter"},
                                prior |-> clientRequests(clientIP)]
            /\ UNCHANGED <<rateLimitStore, admitted>>
       ELSE /\ rateLimitStore' =
                  [rateLimitStore EXCEPT
                      ![clientIP] = Append(validRequests(clientIP), now)]
            /\ admitted' =
                  [admitted EXCEPT ![clientIP] = Remember(@, now)]
            /\ rateResponse' = [ip |-> clientIP, at |-> now, next |-> TRUE,
                                status |-> 0, retryAfter |-> 0, fields |-> {},
                                prior |-> clientRequests(clientIP)]
    /\ UNCHANGED <<now, promptVars, routeVars, burstVars, modeVars>>

\* Time passes between two requests.
Tick ==
    \E d \in ClockSteps :
        /\ now + d <= MaxNow
        /\ now' = now + d
        /\ UNCHANGED <<rateVars, promptVars, routeVars, burstVars, modeVars>>

NoRateResponse ==
    [ip |-> "", at |-> 0, next |-> FALSE, status |-> 0, retryAfter |-> 0,
     fields |-> {}, prior |-> <<>>]

RateInit ==
    /\ now = 0
    /\ rateLimitStore = [ip \in ClientIPs |-> <<>>]
    /\ admitted = [ip \in ClientIPs |-> <<>>]
    /\ rateResponse = NoRateResponse

NextRate ==
    \/ Tick
    \/ \E clientIP \in ClientIPs : validateRequestRate(clientIP)

(***************************************************************************)
(* JavaScript values and strings.  A string is the sequence of its         *)
(* characters; a value is a record of its typeof, its characters (strings) *)
(* and its number (numbers; 1/0 for true/false and for object/null).       *)
(***************************************************************************)
JsString(chars) == [t |-> "string", s |-> chars, n |-> 0]
JsUndefined == [t |-> "undefined", s |-> <<>>, n |-> 0]
JsNull == [t |-> "object", s |-> <<>>, n |-> 0]
JsObject == [t |-> "object", s |-> <<>>, n |-> 1]
JsNumber(k) == [t |-> "number", s |-> <<>>, n |-> k]
JsBoolean(b) == [t |-> "boolean", s |-> <<>>, n |-> IF b THEN 1 ELSE 0]

\* !value
Falsy(value) ==
    CASE value.t = "undefined" -> TRUE
      [] value.t = "string" -> value.s = <<>>
      [] OTHER -> value.n = 0

UpperCase == <<"A", "B", "C", "D", "E", "F", "G", "H", "I", "J", "K", "L", "M",
               "N", "O", "P", "Q", "R", "S", "T", "U", "V", "W", "X", "Y", "Z">>
LowerCase == <<"a", "b", "c", "d", "e", "f", "g", "h", "i", "j", "k", "l", "m",
               "n", "o", "p", "q", "r", "s", "t", "u", "v", "w", "x", "y", "z">>

IsWhitespace(c) == c \in {" ", "\t", "\n", "\r"}

\* String.prototype.trim
trim(s) ==
    IF \A i \in DOMAIN s : IsWhitespace(s[i]) THEN <<>>
    ELSE LET first == CHOOSE i \in DOMAIN s :
                          /\ ~IsWhitespace(s[i])
                          /\ \A j \in 1..(i - 1) : IsWhitespace(s[j])
             last == CHOOSE i \in DOMAIN s :
                          /\ ~IsWhitespace(s[i])
                          /\ \A j \in (i + 1)..Len(s) : IsWhitespace(s[j])
         IN  SubSeq(s, first, last)

\* String.prototype.toLowerCase
toLowerCase(s) ==
    [i \in DOMAIN s |->
        IF \E k \in DOMAIN UpperCase : UpperCase[k] = s[i]
        THEN LowerCase[CHOOSE k \in DOMAIN UpperCase : UpperCase[k] = s[i]]
        ELSE s[i]]

\* String.prototype.includes
includes(s, term) ==
    \E i \in 1..(Len(s) - Len(term) + 1) :
        \A j \in DOMAIN term : s[i + j - 1] = term[j]

(***************************************************************************)
(* isValidPrompt: src/services/cloudflare.js lines 168-185.                *)
(***************************************************************************)
MinPromptLength == 3
MaxPromptLength == 2000

prohibitedTerms ==
    { <<"n", "s", "f", "w">>,
      <<"e", "x", "p", "l", "i", "c", "i", "t">>,
      <<"g", "o", "r", "e">>,
      <<"v", "i", "o", "l", "e", "n", "c", "e">> }

\* The term search without toLowerCase.
isValidPrompt_CaseSensitive(prompt) ==
    IF Falsy(prompt) \/ prompt.t # "string" THEN FALSE
    ELSE LET trimmedPrompt == trim(prompt.s)
         IN  IF \/ Len(trimmedPrompt) < MinPromptLength
                \/ Len(trimmedPrompt) > MaxPromptLength
             THEN FALSE
             ELSE ~\E term \in prohibitedTerms : includes(trimmedPrompt, term)

isValidPrompt(prompt) ==
    IF Falsy(prompt) \/ prompt.t # "string" THEN FALSE
    ELSE LET trimmedPrompt == trim(prompt.s)
         IN  IF \/ Len(trimmedPrompt) < MinPromptLength
                \/ Len(trimmedPrompt) > MaxPromptLength
             THEN FALSE
             ELSE LET lowerPrompt == toLowerCase(trimmedPrompt)
                  IN  ~\E term \in prohibitedTerms : includes(lowerPrompt, term)

(***************************************************************************)
(* validatePrompt: src/middleware/validation.js lines 15-71.  The result   *)
(* is either next() with req.body.prompt replaced by the trimmed prompt,   *)
(* or the 400 response: its message, the promptLength it reports (-1 when  *)
(* the body has none) and the names of the fields of its JSON body.        *)
(***************************************************************************)
MsgTooShort == <<"Prompt must be at least 3 characters long">>
MsgTooLong == <<"Prompt must not exceed 2000 characters">>
MsgProhibited == <<"Prompt contains prohibited content or invalid characters">>

Rejected(error, message, promptLength, fields) ==
    [next |-> FALSE, status |-> 400, success |-> FALSE, error |-> error,
     message |-> message, promptLength |-> promptLength, fields |-> fields,
     prompt |-> <<>>]

validatePrompt(prompt) ==
    IF Falsy(prompt)
    THEN Rejected("Missing required field: prompt",
                  <<"Request body must include a \"prompt\" field with the text description for image generation.">>,
                  -1, {"success", "error", "message", "example"})
    ELSE IF prompt.t # "string"
    THEN Rejected("Invalid prompt type",
                  <<"The \"prompt\" field must be a string.">>,
                  -1, {"success", "error", "message", "received"})
    ELSE IF ~isValidPrompt(prompt)
    THEN LET trimmedPrompt == trim(prompt.s)
             errorMessage ==
                 IF Len(trimmedPrompt) < MinPromptLength THEN MsgTooShort
                 ELSE IF Len(trimmedPrompt) > MaxPromptLength THEN MsgTooLong
                 ELSE MsgProhibited
         IN  Rejected("Invalid prompt", errorMessage, Len(trimmedPrompt),
                      {"success", "error", "message", "promptLength",
                       "maxLength", "minLength"})
    ELSE [next |-> TRUE, status |-> 0, success |-> TRUE, error |-> "",
          message |-> <<>>, promptLength |-> -1, fields |-> {},
          prompt |-> trim(prompt.s)]

(***************************************************************************)
(* The request bodies validatePrompt is given: values that are no string,  *)
(* and strings made of a word between two fillings and two margins of      *)
(* white space.                                                            *)
(***************************************************************************)
Rep(c, k) == [i \in 1..k |-> c]

Words ==
    { <<>>,
      <<"c", "a", "t">>,
      <<"n", "s", "f", "w">>,
      <<"N", "s", "F", "w">>,
      <<"E", "X", "P", "L", "I", "C", "I", "T">>,
      <<"g", "O", "r", "e">>,
      <<"V", "i", "o", "l", "e", "n", "c", "e">>,
      <<"n", "s", " ", "f", "w">>,
      <<"g", "o", "r">> }

Margins == { <<>>, <<" ">>, <<"\t", " ">> }

\* Lengths of the filling before and after the word.
FillBefore == {0, 1, 2}
FillAfter == {0, 1, MaxPromptLength - 8, MaxPromptLength - 4, MaxPromptLength}

PromptStrings ==
    { lead \o Rep("a", before) \o word \o Rep("z", after) \o trail :
        lead \in Margins, trail \in {<<>>, <<" ">>}, before \in FillBefore,
        after \in FillAfter, word \in Words }

PromptBodies ==
    {JsUndefined, JsNull, JsObject, JsNumber(0), JsNumber(7),
     JsBoolean(FALSE), JsBoolean(TRUE)}
    \union {JsString(s) : s \in PromptStrings}

NoPromptResponse ==
    [next |-> FALSE, status |-> 0, success |-> FALSE, error |-> "",
     message |-> <<>>, promptLength |-> -1, fields |-> {}, prompt |-> <<>>]

NoBody == [t |-> "none", s |-> <<>>, n |-> 0]

\* A request body reaches the middleware.
ReceiveBody ==
    /\ reqBody = NoBody
    /\ \E body \in PromptBodies : reqBody' = body
    /\ promptResponse' = NoPromptResponse
    /\ UNCHANGED <<now, rateVars, routeVars, burstVars, modeVars>>

\* The middleware runs on it.
RunValidatePrompt ==
    /\ reqBody # NoBody
    /\ promptResponse = NoPromptResponse
    /\ promptResponse' = validatePrompt(reqBody)
    /\ UNCHANGED <<reqBody, now, rateVars, routeVars, burstVars, modeVars>>

\* The request is over: the response was sent, or the route handler ran.
FinishRequest ==
    /\ promptResponse # NoPromptResponse
    /\ reqBody' = NoBody
    /\ promptResponse' = NoPromptResponse
    /\ UNCHANGED <<now, rateVars, routeVars, burstVars, modeVars>>

PromptInit ==
    /\ reqBody = NoBody
    /\ promptResponse = NoPromptResponse

NextPrompt == ReceiveBody \/ RunValidatePrompt \/ FinishRequest

(***************************************************************************)
(* Buffer.toString('base64') and Buffer.from(text, 'base64').              *)
(***************************************************************************)
Digits == <<"0", "1", "2", "3", "4", "5", "6", "7", "8", "9">>
Base64Alphabet == UpperCase \o LowerCase \o Digits \o <<"+", "/">>

Base64Group(b) ==
    LET b1 == b[1]
        b2 == IF Len(b) >= 2 THEN b[2] ELSE 0
        b3 == IF Len(b) >= 3 THEN b[3] ELSE 0
        word == (b1 * 65536) + (b2 * 256) + b3
    IN  << Base64Alphabet[(word \div 262144) + 1],
           Base64Alphabet[((word \div 4096) % 64) + 1],
           IF Len(b) >= 2 THEN Base64Alphabet[((word \div 64) % 64) + 1]
           ELSE "=",
           IF Len(b) >= 3 THEN Base64Alphabet[(word % 64) + 1] ELSE "=" >>

RECURSIVE toBase64(_)
toBase64(bytes) ==
    IF bytes = <<>> THEN <<>>
    ELSE IF Len(bytes) <= 3 THEN Base64Group(bytes)
    ELSE Base64Group(SubSeq(bytes, 1, 3))
             \o toBase64(SubSeq(bytes, 4, Len(bytes)))

Base64Index(c) == (CHOOSE k \in DOMAIN Base64Alphabet : Base64Alphabet[k] = c) - 1

RECURSIVE fromBase64(_)
fromBase64(text) ==
    IF Len(text) < 4 THEN <<>>
    ELSE LET pad == IF text[3] = "=" THEN 2 ELSE IF text[4] = "=" THEN 1 ELSE 0
             c3 == IF pad = 2 THEN 0 ELSE Base64Index(text[3])
             c4 == IF pad >= 1 THEN 0 ELSE Base64Index(text[4])
             word == (Base64Index(text[1]) * 262144)
                       + (Base64Index(text[2]) * 4096) + (c3 * 64) + c4
             three == <<word \div 65536, (word \div 256) % 256, word % 256>>
         IN  SubSeq(three, 1, 3 - pad) \o fromBase64(SubSeq(text, 5, Len(text)))

(***************************************************************************)
(* The upstream provider, as fetch shows it: the call is rejected (network *)
(* failure), or it yields a response with a status and a body.  The body   *)
(* of a success is the image, which arrayBuffer() may fail to read; the    *)
(* body of a failure is what response.json() makes of it.                  *)
(***************************************************************************)
PngBytes == <<137, 80, 78, 71>>

\* The parsed JSON of an error body: errors is the value of its "errors"
\* member, each element having a message or none.
ErrorElement(nonNull, message) == [nonNull |-> nonNull, message |-> message]

ErrorBody(parses, nonNull, hasErrors, errors) ==
    [parses |-> parses, nonNull |-> nonNull, hasErrors |-> hasErrors,
     errors |-> errors]

ErrorBodies ==
    { ErrorBody(FALSE, FALSE, FALSE, <<>>),          \* not JSON
      ErrorBody(TRUE, FALSE, FALSE, <<>>),           \* null
      ErrorBody(TRUE, TRUE, FALSE, <<>>),            \* {"success":false}
      ErrorBody(TRUE, TRUE, TRUE, <<>>),             \* {"errors":[]}
      ErrorBody(TRUE, TRUE, TRUE,
                <<ErrorElement(TRUE, JsString(<<"quota exceeded">>))>>),
      ErrorBody(TRUE, TRUE, TRUE,
                <<ErrorElement(TRUE, JsString(<<"Authentication error">>)),
                  ErrorElement(TRUE, JsString(<<"second">>))>>),
      ErrorBody(TRUE, TRUE, TRUE, <<ErrorElement(TRUE, JsString(<<>>))>>),
      ErrorBody(TRUE, TRUE, TRUE, <<ErrorElement(TRUE, JsUndefined)>>),
      ErrorBody(TRUE, TRUE, TRUE, <<ErrorElement(FALSE, JsUndefined)>>) }

NoErrorBody == ErrorBody(FALSE, FALSE, FALSE, <<>>)

ErrorStatuses == {429, 500}
CredentialStatuses == {401, 403}

NetworkFailure ==
    [type |-> "reject", ok |-> FALSE, status |-> 0, readable |-> FALSE,
     bytes |-> <<>>, body |-> NoErrorBody]

ImageResponse(readable) ==
    [type |-> "response", ok |-> TRUE, status |-> 200, readable |-> readable,
     bytes |-> PngBytes, body |-> NoErrorBody]

FailureResponse(status, body) ==
    [type |-> "response", ok |-> FALSE, status |-> status, readable |-> TRUE,
     bytes |-> <<>>, body |-> body]

NoOutcome ==
    [type |-> "none", ok |-> FALSE, status |-> 0, readable |-> FALSE,
     bytes |-> <<>>, body |-> NoErrorBody]

GoodAccountId == JsString(<<"account-1">>)
GoodApiToken == JsString(<<"token-1">>)
BadAccountId == JsString(<<"no-such-account">>)
BadApiToken == JsString(<<"revoked-token">>)

\* The provider accepts the configured credentials.
CredentialsAccepted ==
    env.accountId = GoodAccountId /\ env.apiToken = GoodApiToken

\* What the call may end in: a provider that does not accept the credentials
\* never yields the image, it answers with a credential status.
UpstreamOutcomes ==
    IF CredentialsAccepted
    THEN {NetworkFailure} \union {ImageResponse(r) : r \in BOOLEAN}
           \union {FailureResponse(st, b) : st \in ErrorStatuses, b \in ErrorBodies}
    ELSE {NetworkFailure}
           \union {FailureResponse(st, b) : st \in CredentialStatuses, b \in ErrorBodies}

(***************************************************************************)
(* src/services/cloudflare.js: the errors and generateImage.               *)
(***************************************************************************)
Thrown(name, message, status) ==
    [name |-> name, message |-> message, status |-> status, image |-> <<>>]

Returned(image) ==
    [name |-> "", message |-> <<>>, status |-> 0, image |-> image]

NoResult == [name |-> "none", message |-> <<>>, status |-> 0, image |-> <<>>]

\* class CloudflareAPIError, lines 17-24
CloudflareAPIError(message, status) ==
    Thrown("CloudflareAPIError", message, status)

\* class AuthenticationError, lines 29-34
AuthenticationError(message) == Thrown("AuthenticationError", message, 0)

\* The credentials check with the token forgotten.
validateCredentials_AccountOnly ==
    IF Falsy(env.accountId)
    THEN AuthenticationError(
             <<"CLOUDFLARE_ACCOUNT_ID environment variable is required">>)
    ELSE Returned(<<>>)

\* validateCredentials, lines 41-54
validateCredentials ==
    IF Falsy(env.accountId)
    THEN AuthenticationError(
             <<"CLOUDFLARE_ACCOUNT_ID environment variable is required">>)
    ELSE IF Falsy(env.apiToken)
    THEN AuthenticationError(
             <<"CLOUDFLARE_API_TOKEN environment variable is required">>)
    ELSE Returned(<<>>)

GenericMessage(status) ==
    <<"Cloudflare API request failed with status ", ToString(status)>>

\* The error message taken from the last structured error, not the first.
processCloudflareResponse_LastError(response) ==
    IF ~response.ok
    THEN LET errorData == response.body
             last == Len(errorData.errors)
             parsed ==
                 /\ errorData.parses
                 /\ errorData.nonNull
                 /\ errorData.hasErrors
                 /\ Len(errorData.errors) > 0
                 /\ errorData.errors[last].nonNull
             errorMessage ==
                 IF parsed /\ ~Falsy(errorData.errors[last].message)
                 THEN errorData.errors[last].message.s
                 ELSE GenericMessage(response.status)
         IN  CloudflareAPIError(errorMessage, response.status)
    ELSE IF ~response.readable
    THEN Thrown("Error", <<"Premature close">>, 0)
    ELSE Returned(toBase64(response.bytes))

\* processCloudflareResponse, lines 84-110: what it returns or throws.
processCloudflareResponse(response) ==
    IF ~response.ok
    THEN LET errorData == response.body
             \* the try block: any exception in it leaves the generic message
             parsed ==
                 /\ errorData.parses
                 /\ errorData.nonNull
                 /\ errorData.hasErrors
                 /\ Len(errorData.errors) > 0
                 /\ errorData.errors[1].nonNull
             errorMessage ==
                 IF parsed /\ ~Falsy(errorData.errors[1].message)
                 THEN errorData.errors[1].message.s
                 ELSE GenericMessage(response.status)
         IN  CloudflareAPIError(errorMessage, response.status)
    ELSE IF ~response.readable
    THEN Thrown("Error", <<"Premature close">>, 0)
    ELSE Returned(toBase64(response.bytes))

\* generateImage, lines 151-160: the catch block.
Rethrow(error) ==
    IF error.name \in {"AuthenticationError", "CloudflareAPIError"}
    THEN error
    ELSE Thrown("Error", <<"Image generation failed: ">> \o error.message, 0)

\* generateImage, lines 120-146: up to the await of fetch.  Either it is
\* over with a rejection, or fetch was called.
generateImageStart ==
    LET credentials == validateCredentials
    IN  IF credentials.name # ""
        THEN [fetched |-> FALSE, result |-> Rethrow(credentials)]
        ELSE [fetched |-> TRUE, result |-> NoResult]

\* The catch block left out: what fetch and processCloudflareResponse throw
\* leaves generateImage as it is.
generateImageEnd_Unwrapped(outcome) ==
    IF outcome.type = "reject"
    THEN Thrown("FetchError", <<"fetch failed">>, 0)
    ELSE processCloudflareResponse(outcome)

\* generateImage, lines 142-160: from the moment fetch settles.
generateImageEnd(outcome) ==
    IF outcome.type = "reject"
    THEN Rethrow(Thrown("FetchError", <<"fetch failed">>, 0))
    ELSE LET r == processCloudflareResponse(outcome)
         IN  IF r.name = "" THEN r ELSE Rethrow(r)

(***************************************************************************)
(* src/routes/generate.js.                                                 *)
(***************************************************************************)
\* The chain with its default taken for the authentication error.
statusCode_NoAuthenticationCase(error) ==
    IF error.name = "CloudflareAPIError" THEN 502
    ELSE IF error.name = "ValidationError" THEN 400
    ELSE 500

\* lines 59-71 and 131-143
statusCode(error) ==
    IF error.name = "CloudflareAPIError" THEN 502
    ELSE IF error.name = "ValidationError" THEN 400
    ELSE IF error.name = "AuthenticationError" THEN 401
    ELSE 500

errorMessage(error) ==
    IF error.name = "CloudflareAPIError"
    THEN <<"Failed to communicate with Cloudflare AI service">>
    ELSE IF error.name = "ValidationError" THEN error.message
    ELSE IF error.name = "AuthenticationError"
    THEN <<"Invalid Cloudflare API credentials">>
    ELSE <<"Failed to generate image due to an internal error">>

Response(status, json, success, error, message, fields, payload) ==
    [sent |-> TRUE, status |-> status, json |-> json, success |-> success,
     error |-> error, message |-> message, fields |-> fields,
     payload |-> payload]

\* No response: the handler's promise was rejected and nothing settles it.
NoResponse ==
    [sent |-> FALSE, status |-> 0, json |-> FALSE, success |-> FALSE,
     error |-> <<>>, message |-> <<>>, fields |-> {}, payload |-> <<>>]

\* lines 73-79 and 145-152: the catch block's response
ErrorResponse(mode, error) ==
    Response(statusCode(error), TRUE, FALSE, errorMessage(error), <<>>,
             {"success", "error", "prompt", "timestamp", "processingTimeMs"}
                 \union (IF mode = "GET" THEN {"method"} ELSE {}),
             <<>>)

\* lines 46-52
PostSuccess(imageBase64) ==
    Response(200, TRUE, TRUE, <<>>, <<>>,
             {"success", "image", "prompt", "timestamp", "processingTimeMs"},
             imageBase64)

\* Node refuses a header value with a line break in it.
IsHeaderValue(s) == \A i \in DOMAIN s : s[i] \notin {"\n", "\r"}

\* lines 115-124: res.set throws on a prompt that is no header value, and
\* the catch block answers.
GetSuccess(prompt, imageBase64) ==
    IF IsHeaderValue(trim(prompt))
    THEN Response(200, FALSE, TRUE, <<>>, <<>>, {}, fromBase64(imageBase64))
    ELSE ErrorResponse("GET",
             Thrown("TypeError", <<"Invalid character in header content">>, 0))

\* validatePrompt's response, as the client sees it
ValidationResponse(v) ==
    Response(v.status, TRUE, v.success, <<v.error>>, v.message, v.fields, <<>>)

\* lines 96-103
GetRejection ==
    Response(400, TRUE, FALSE, <<"Invalid prompt">>,
             <<"Prompt must be between 3 and 2000 characters long">>,
             {"success", "error", "message", "example"}, <<>>)

\* decodeURIComponent, line 92, of a path parameter the router has decoded
\* already: a "%" must start an escape.
RECURSIVE decodeEscapes(_)
decodeEscapes(s) ==
    IF s = <<>> THEN [ok |-> TRUE, s |-> <<>>]
    ELSE IF Head(s) # "%"
    THEN LET rest == decodeEscapes(Tail(s))
         IN  [ok |-> rest.ok, s |-> <<Head(s)>> \o rest.s]
    ELSE IF Len(s) >= 3 /\ <<s[2], s[3]>> \in {<<"2", "0">>, <<"0", "A">>, <<"2", "5">>}
    THEN LET rest == decodeEscapes(SubSeq(s, 4, Len(s)))
             c == CASE <<s[2], s[3]>> = <<"2", "0">> -> " "
                    [] <<s[2], s[3]>> = <<"0", "A">> -> "\n"
                    [] OTHER -> "%"
         IN  [ok |-> rest.ok, s |-> <<c>> \o rest.s]
    ELSE [ok |-> FALSE, s |-> <<>>]

decodeURIComponent(s) ==
    IF \A i \in DOMAIN s : s[i] # "%" THEN [ok |-> TRUE, s |-> s]
    ELSE decodeEscapes(s)

\* What a request is served with: the latest entry of the history.
\* raw is the request's input, prompt the handler's variable of that name.
Served(mode, raw, prompt, called, fetched, outcome, result, response) ==
    [mode |-> mode, raw |-> raw, prompt |-> prompt, called |-> called,
     fetched |-> fetched, outcome |-> outcome, result |-> result,
     response |-> response]

NothingServed ==
    Served("", JsUndefined, <<>>, FALSE, FALSE, NoOutcome, NoResult, NoResponse)

Idle == [pc |-> "idle", mode |-> "", raw |-> JsUndefined, prompt |-> <<>>]

Slots == 1..MaxInFlight

\* The request bodies and path parameters of the routes.
RouteBodies ==
    { JsUndefined, JsNumber(7), JsString(<<>>),
      JsString(<<"a", "b">>),
      JsString(<<" ", "c", "a", "t", " ">>),
      JsString(<<"a", " ", "G", "o", "r", "e", " ", "p", "i", "c">>),
      JsString(Rep("a", MaxPromptLength + 1)) }

RouteParams ==
    { JsString(<<"a", "b">>),
      JsString(<<" ", " ", " ">>),
      JsString(<<" ", "c", "a", "t", " ">>),
      JsString(<<"a", " ", "G", "o", "r", "e", " ", "p", "i", "c">>),
      JsString(<<"a", "%", "2", "0">>),
      JsString(<<"5", "0", "%", " ", "o", "f", "f">>),
      JsString(<<"c", "a", "t", "%", "0", "A", "d", "o", "g">>),
      JsString(Rep("a", MaxPromptLength + 1)) }

\* The prompts given to both routes: as the prompt member of a POST body,
\* and as the path parameter of a GET request once the router has decoded
\* the client's escapes.
TwinPrompts ==
    { JsString(<<"a", "b">>),
      JsString(<<" ", " ", " ">>),
      JsString(<<" ", "c", "a", "t", " ">>),
      JsString(<<"c", "a", "t", "\n", "d", "o", "g">>),
      JsString(<<"n", "s", "f", "w">>),
      JsString(<<"a", " ", "G", "o", "r", "e", " ", "p", "i", "c">>),
      JsString(<<"g", "o", " ", "r", "e">>),
      JsString(<<"a", "b", "%", "2", "0">>),
      JsString(<<"5", "0", "%", " ", "o", "f", "f">>),
      JsString(<<"c", "a", "t", "%", "0", "A", "d", "o", "g">>),
      JsString(<<" ">> \o Rep("a", MaxPromptLength) \o <<" ">>),
      JsString(Rep("a", MaxPromptLength - 4) \o <<"g", "o", "r", "e">>),
      JsString(Rep("a", MaxPromptLength - 3) \o <<"g", "o", "r", "e">>),
      JsString(Rep("a", MaxPromptLength + 1)) }

\* The middleware of the POST route on each body (line 32).
PostChecked == [body \in RouteBodies \union TwinPrompts |-> validatePrompt(body)]

\* The inline check without its upper bound.
GetCheck_NoUpperBound(param) ==
    LET decoded == decodeURIComponent(param.s)
        prompt == decoded.s
    IN  [decoded |-> decoded.ok, prompt |-> prompt,
         rejected |-> \/ prompt = <<>>
                      \/ Len(trim(prompt)) < MinPromptLength]

\* The decoding and the inline check of the GET route, lines 92-103.
GetCheck(param) ==
    LET decoded == decodeURIComponent(param.s)
        prompt == decoded.s
    IN  [decoded |-> decoded.ok, prompt |-> prompt,
         rejected |-> \/ prompt = <<>>
                      \/ Len(trim(prompt)) < MinPromptLength
                      \/ Len(trim(prompt)) > MaxPromptLength]

GetChecked == [param \in RouteParams \union TwinPrompts |-> GetCheck(param)]

\* POST /generate, lines 32-81, until its first suspension: validatePrompt,
\* then the handler up to the await of fetch inside generateImage.
PostHandling(body) ==
    LET v == PostChecked[body]
        g == generateImageStart
    IN  IF ~v.next
        THEN [suspend |-> FALSE, prompt |-> <<>>,
              served |-> Served("POST", body, <<>>, FALSE, FALSE, NoOutcome, NoResult,
                                ValidationResponse(v))]
        ELSE IF ~g.fetched
        THEN [suspend |-> FALSE, prompt |-> v.prompt,
              served |-> Served("POST", body, v.prompt, TRUE, FALSE, NoOutcome, g.result,
                                ErrorResponse("POST", g.result))]
        ELSE [suspend |-> TRUE, prompt |-> v.prompt, served |-> NothingServed]

\* GET /generate/:prompt, lines 91-154, until its first suspension.
GetHandling(param) ==
    LET c == GetChecked[param]
        g == generateImageStart
    IN  IF ~c.decoded
        THEN [suspend |-> FALSE, prompt |-> <<>>,
              served |-> Served("GET", param, <<>>, FALSE, FALSE, NoOutcome,
                                Thrown("URIError", <<"URI malformed">>, 0),
                                NoResponse)]
        ELSE IF c.rejected
        THEN [suspend |-> FALSE, prompt |-> c.prompt,
              served |-> Served("GET", param, c.prompt, FALSE, FALSE, NoOutcome, NoResult,
                                GetRejection)]
        ELSE IF ~g.fetched
        THEN [suspend |-> FALSE, prompt |-> c.prompt,
              served |-> Served("GET", param, c.prompt, TRUE, FALSE, NoOutcome, g.result,
                                ErrorResponse("GET", g.result))]
        ELSE [suspend |-> TRUE, prompt |-> c.prompt, served |-> NothingServed]

Arrive(slot, mode, raw, h) ==
    /\ inflight[slot].pc = "idle"
    /\ IF h.suspend
       THEN /\ inflight' = [inflight EXCEPT
                               ![slot] = [pc |-> "fetch", mode |-> mode,
                                          raw |-> raw, prompt |-> h.prompt]]
            /\ UNCHANGED served
       ELSE /\ served' = h.served
            /\ UNCHANGED inflight
    /\ UNCHANGED env

PostGenerate ==
    \E slot \in Slots, body \in RouteBodies :
        /\ Arrive(slot, "POST", body, PostHandling(body))
        /\ UNCHANGED <<now, rateVars, promptVars, burstVars, modeVars>>

GetGenerate ==
    \E slot \in Slots, param \in RouteParams :
        /\ Arrive(slot, "GET", param, GetHandling(param))
        /\ UNCHANGED <<now, rateVars, promptVars, burstVars, modeVars>>

\* The upstream call of a request settles and its handler runs to the end.
Settle(slot, outcome) ==
    LET req == inflight[slot]
        result == generateImageEnd(outcome)
        response ==
            IF result.name # "" THEN ErrorResponse(req.mode, result)
            ELSE IF req.mode = "POST" THEN PostSuccess(result.image)
            ELSE GetSuccess(req.prompt, result.image)
    IN  /\ req.pc = "fetch"
        /\ served' = Served(req.mode, req.raw, req.prompt, TRUE, TRUE, outcome,
                            result, response)
        /\ inflight' = [inflight EXCEPT ![slot] = Idle]
        /\ UNCHANGED env

FetchSettles ==
    \E slot \in Slots, outcome \in UpstreamOutcomes :
        /\ Settle(slot, outcome)
        /\ UNCHANGED <<now, rateVars, promptVars, burstVars, modeVars>>

\* The 404 handler of the server file, src/services/cloudflare.js lines
\* 258-267.
NotFoundHandler ==
    Response(404, TRUE, FALSE, <<"Endpoint not found">>,
             <<"The requested endpoint does not exist.">>,
             {"error", "message", "availableEndpoints"}, <<>>)

\* The global error handler, lines 270-277.
GlobalErrorHandler ==
    Response(500, TRUE, FALSE, <<"Internal server error">>,
             <<"An unexpected error occurred while processing your request.">>,
             {"error", "message", "timestamp"}, <<>>)

\* A request for a path no route matches ends in the 404 handler.
UnmatchedRoute ==
    /\ served' = Served("*", JsUndefined, <<>>, FALSE, FALSE, NoOutcome,
                        NoResult, NotFoundHandler)
    /\ UNCHANGED <<env, inflight>>
    /\ UNCHANGED <<now, rateVars, promptVars, burstVars, modeVars>>

\* A request whose body express.json() cannot parse (line 216): the parser
\* passes its error on, and the global error handler answers.
MalformedJson ==
    /\ served' = Served("express.json", JsUndefined, <<>>, FALSE, FALSE,
                        NoOutcome,
                        Thrown("SyntaxError", <<"Unexpected token">>, 400),
                        GlobalErrorHandler)
    /\ UNCHANGED <<env, inflight>>
    /\ UNCHANGED <<now, rateVars, promptVars, burstVars, modeVars>>

\* process.env at the start of the server
Environments ==
    { [accountId |-> GoodAccountId, apiToken |-> GoodApiToken],
      [accountId |-> JsUndefined, apiToken |-> GoodApiToken],
      [accountId |-> GoodAccountId, apiToken |-> JsUndefined],
      [accountId |-> JsUndefined, apiToken |-> JsUndefined],
      [accountId |-> GoodAccountId, apiToken |-> JsString(<<>>)],
      [accountId |-> GoodAccountId, apiToken |-> BadApiToken],
      [accountId |-> BadAccountId, apiToken |-> GoodApiToken] }

RouteIdle ==
    /\ inflight = [slot \in Slots |-> Idle]
    /\ served = NothingServed

NoArrival == [nth |-> 0, passedOn |-> FALSE, status |-> 0]

BurstInit ==
    /\ burst = [start |-> 0, count |-> 0]
    /\ arrival = NoArrival

NextRoute ==
    \/ PostGenerate
    \/ GetGenerate
    \/ FetchSettles
    \/ UnmatchedRoute
    \/ MalformedJson

(***************************************************************************)
(* The routes observed: the POST requests of one client that arrive less   *)
(* than windowMs after its first one with a valid prompt are numbered.     *)
(***************************************************************************)
CountedPost ==
    \E slot \in Slots, body \in RouteBodies :
        LET h == PostHandling(body)
            valid == PostChecked[body].next
            counted ==
                /\ valid
                /\ burst.count <= maxRequests
                /\ burst.count = 0 \/ now - burst.start < windowMs
        IN  /\ Arrive(slot, "POST", body, h)
            /\ IF counted
               THEN /\ burst' = [start |-> IF burst.count = 0 THEN now
                                           ELSE burst.start,
                                 count |-> burst.count + 1]
                    /\ arrival' = [nth |-> burst.count + 1,
                                   passedOn |-> h.suspend,
                                   status |-> IF h.suspend THEN 0
                                              ELSE h.served.response.status]
               ELSE UNCHANGED burstVars
            /\ UNCHANGED <<now, rateVars, promptVars, modeVars>>

NextBurst == Tick \/ CountedPost \/ FetchSettles

(***************************************************************************)
(* The routes compared: a prompt is chosen and sent once through each      *)
(* route, and what each route did with it is kept: "forwarded" when the    *)
(* handler called generateImage with it, "rejected" when the request was   *)
(* answered with status 400 before, "failed" when the handler threw.       *)
(***************************************************************************)
NoTwin == [raw |-> JsUndefined, post |-> "", get |-> ""]

TwinInit == twin = NoTwin

Verdict(h) ==
    IF h.suspend \/ h.served.called THEN "forwarded"
    ELSE IF h.served.response.sent /\ h.served.response.status = 400
    THEN "rejected"
    ELSE "failed"

\* The next prompt is chosen when the requests of the last one are over.
NewPrompt ==
    /\ twin = NoTwin \/ (twin.post # "" /\ twin.get # "")
    /\ \A slot \in Slots : inflight[slot].pc = "idle"
    /\ \E prompt \in TwinPrompts :
          twin' = [raw |-> prompt, post |-> "", get |-> ""]
    /\ UNCHANGED <<now, rateVars, promptVars, routeVars, burstVars>>

\* POST /generate with the body {"prompt": twin.raw}
TwinPost ==
    /\ twin # NoTwin
    /\ twin.post = ""
    /\ \E slot \in Slots :
          Arrive(slot, "POST", twin.raw, PostHandling(twin.raw))
    /\ twin' = [twin EXCEPT !.post = Verdict(PostHandling(twin.raw))]
    /\ UNCHANGED <<now, rateVars, promptVars, burstVars>>

\* GET /generate/<twin.raw with its characters escaped>
TwinGet ==
    /\ twin # NoTwin
    /\ twin.get = ""
    /\ \E slot \in Slots :
          Arrive(slot, "GET", twin.raw, GetHandling(twin.raw))
    /\ twin' = [twin EXCEPT !.get = Verdict(GetHandling(twin.raw))]
    /\ UNCHANGED <<now, rateVars, promptVars, burstVars>>

NextModes == NewPrompt \/ TwinPost \/ TwinGet \/ FetchSettles

(***************************************************************************)
(* The specifications.                                                     *)
(***************************************************************************)
ServerStopped == env = [accountId |-> JsUndefined, apiToken |-> JsUndefined]

InitRate ==
    /\ RateInit /\ PromptInit /\ ServerStopped /\ RouteIdle /\ BurstInit
    /\ TwinInit
SpecRate == InitRate /\ [][NextRate]_vars

InitPrompt == InitRate
SpecPrompt == InitPrompt /\ [][NextPrompt]_vars

Init ==
    /\ RateInit /\ PromptInit /\ RouteIdle /\ BurstInit /\ TwinInit
    /\ env \in Environments
Next == NextRoute
Spec == Init /\ [][Next]_vars

InitBurst ==
    /\ RateInit /\ PromptInit /\ RouteIdle /\ BurstInit /\ TwinInit
    /\ env = [accountId |-> GoodAccountId, apiToken |-> GoodApiToken]
SpecBurst == InitBurst /\ [][NextBurst]_vars

InitModes == InitBurst
SpecModes == InitModes /\ [][NextModes]_vars

(***************************************************************************)
(* The claims about validateRequestRate, under SpecRate.                   *)
(***************************************************************************)
Elements(seq) == {seq[i] : i \in DOMAIN seq}

Oldest(timestamps) == CHOOSE t \in timestamps : \A u \in timestamps : t <= u

\* The stored timestamps of the latest call that its window still holds.
Remaining == {t \in Elements(rateResponse.prior) : rateResponse.at - t < 60000}

\* The admitted requests of the latest call's key its window holds, that
\* call included when it was admitted.
AdmittedInWindow ==
    {i \in DOMAIN admitted[rateResponse.ip] :
        rateResponse.at - admitted[rateResponse.ip][i] < 60000}

\* C2: with a window of 60000 ms and at most 10 requests: a request is
\* admitted only if it is at most the 10th of its key admitted in its window,
\* so the request after 10 admitted ones of one window is denied; a denial
\* has a retryAfter that is a positive integer, the ceiling of
\* (oldest remaining timestamp + 60000 - now) / 1000; and a request that
\* arrives when 60000 ms have elapsed since the oldest stored entry is
\* admitted.
C2_DeniedWithRetryAfterThenAdmitted ==
    rateResponse.ip # "" =>
        /\ rateResponse.next => Cardinality(AdmittedInWindow) <= 10
        /\ rateResponse.next <=> rateResponse.status # 429
        /\ rateResponse.status = 429 =>
              /\ Remaining # {}
              /\ rateResponse.retryAfter > 0
              /\ rateResponse.retryAfter * 1000
                    >= Oldest(Remaining) + 60000 - rateResponse.at
              /\ (rateResponse.retryAfter - 1) * 1000
                    < Oldest(Remaining) + 60000 - rateResponse.at
        /\ ( /\ rateResponse.prior # <<>>
             /\ rateResponse.at >= Oldest(Elements(rateResponse.prior)) + 60000 )
              => rateResponse.next

\* C2's case: the 11th request of a full window is denied at a moment that
\* is no whole number of seconds before the oldest entry leaves the window.
C2_Witness ==
    /\ rateResponse.status = 429
    /\ Len(rateResponse.prior) = 10
    /\ Remaining = Elements(rateResponse.prior)
    /\ (Oldest(Remaining) + 60000 - rateResponse.at) % 1000 # 0
    /\ rateResponse.retryAfter = 31

\* C3: a call of validateRequestRate is one step, and whatever the order of
\* the calls no more than 10 requests of one key are admitted within 60
\* seconds: of any 11 admitted one after the other, the last comes at least
\* 60000 ms after the first.
C3_AtMostMaxAdmittedPerWindow ==
    \A ip \in ClientIPs :
        \A i, j \in DOMAIN admitted[ip] :
            j - i >= 10 => admitted[ip][j] - admitted[ip][i] >= 60000

\* C3's case: an 11th request was admitted, and requests at three moments
\* share its window.
C3_Witness ==
    \E ip \in ClientIPs :
        /\ Len(admitted[ip]) = 11
        /\ Cardinality(Elements(rateLimitStore[ip])) = 3
        /\ Len(rateLimitStore[ip]) = 10

\* The sequence stored for the key of the latest call.
Stored == rateLimitStore[rateResponse.ip]

\* C12: each time a request of a key is admitted at a time now, the
\* sequence stored for the key has at most 10 entries, ends with now, and
\* holds only timestamps t with now - 60000 <= t <= now.
C12_StoredSequenceOnAdmission ==
    rateResponse.next =>
        /\ Stored # <<>>
        /\ Len(Stored) <= 10
        /\ Stored[Len(Stored)] = rateResponse.at
        /\ \A i \in DOMAIN Stored :
              /\ rateResponse.at - 60000 <= Stored[i]
              /\ Stored[i] <= rateResponse.at

\* C12's case: the 10th request of a window is admitted 59999 ms after the
\* first, after an older entry was dropped.
C12_Witness ==
    /\ rateResponse.next
    /\ Len(Stored) = 10
    /\ rateResponse.at - Stored[1] = 59999
    /\ \E i \in DOMAIN rateResponse.prior :
          rateResponse.at - rateResponse.prior[i] >= 60000

(***************************************************************************)
(* The claims about validatePrompt, under SpecPrompt.  The strings of the  *)
(* claims are described without the program's own trim, toLowerCase and    *)
(* includes.                                                               *)
(***************************************************************************)
Blank == {" ", "\t", "\n", "\r"}

\* The length of a string without its leading and trailing white space.
TrimmedLength(s) ==
    Cardinality({i \in DOMAIN s :
                    /\ \E j \in 1..i : s[j] \notin Blank
                    /\ \E k \in i..Len(s) : s[k] \notin Blank})

SameLetter(c, d) ==
    \/ c = d
    \/ \E k \in DOMAIN UpperCase : c = UpperCase[k] /\ d = LowerCase[k]

TermsOfTheClaims ==
    { <<"n", "s", "f", "w">>, <<"e", "x", "p", "l", "i", "c", "i", "t">>,
      <<"g", "o", "r", "e">>, <<"v", "i", "o", "l", "e", "n", "c", "e">> }

\* s contains a case-insensitive occurrence of one of the four terms.
HasProhibitedTerm(s) ==
    \E term \in TermsOfTheClaims :
        \E i \in 1..(Len(s) - Len(term) + 1) :
            \A j \in DOMAIN term : SameLetter(s[i + j - 1], term[j])

Validated == reqBody # NoBody /\ promptResponse # NoPromptResponse

\* C9 as stated: every string with a case-insensitive occurrence of "nsfw",
\* "explicit", "gore" or "violence" is rejected with the prohibited-content
\* reason, whatever surrounds the term and however long the string is.
C9_ProhibitedWhateverTheLength ==
    (Validated /\ reqBody.t = "string" /\ HasProhibitedTerm(reqBody.s)) =>
        /\ promptResponse.status = 400
        /\ promptResponse.message = MsgProhibited

\* C9 amended: every string with a case-insensitive occurrence of one of the
\* four terms is rejected with status 400; the reason is prohibited content
\* when its trimmed length is at most 2000, and the too-long reason when its
\* trimmed length is above 2000.
C9_ProhibitedUnlessTooLong ==
    (Validated /\ reqBody.t = "string" /\ HasProhibitedTerm(reqBody.s)) =>
        /\ ~promptResponse.next
        /\ promptResponse.status = 400
        /\ TrimmedLength(reqBody.s) <= 2000
              => promptResponse.message = MsgProhibited
        /\ TrimmedLength(reqBody.s) > 2000
              => promptResponse.message = MsgTooLong

\* C9's case: a term in capitals between other characters, in a string of
\* exactly 2000 characters after trimming, is rejected as prohibited.
C9_Witness ==
    /\ Validated
    /\ reqBody.t = "string"
    /\ HasProhibitedTerm(reqBody.s)
    /\ ~\E term \in TermsOfTheClaims : includes(reqBody.s, term)
    /\ TrimmedLength(reqBody.s) = 2000
    /\ Len(reqBody.s) > 2000
    /\ promptResponse.message = MsgProhibited

\* C10: every string whose trimmed length is below 3, the empty string and
\* the strings of white space included, is rejected with 'Prompt must be at
\* least 3 characters long', and every string whose trimmed length is above
\* 2000 with 'Prompt must not exceed 2000 characters'.
C10_TooShortTooLong ==
    (Validated /\ reqBody.t = "string") =>
        /\ TrimmedLength(reqBody.s) < 3 =>
              /\ promptResponse.status = 400
              /\ promptResponse.message = MsgTooShort
        /\ TrimmedLength(reqBody.s) > 2000 =>
              /\ promptResponse.status = 400
              /\ promptResponse.message = MsgTooLong

\* What does hold of the lengths: the empty string apart.
NonEmptyTooShortTooLong ==
    (Validated /\ reqBody.t = "string" /\ reqBody.s # <<>>) =>
        /\ TrimmedLength(reqBody.s) < 3 =>
              promptResponse.message = MsgTooShort
        /\ TrimmedLength(reqBody.s) > 2000 =>
              promptResponse.message = MsgTooLong

(***************************************************************************)
(* The claims about the routes, under Spec and SpecBurst.                  *)
(***************************************************************************)
\* C1: of the POST requests with a valid prompt that one client sends
\* within 60 seconds, the first 10 are passed on to the upstream call and
\* the 11th is answered with status 429 without an upstream call.
C1_EleventhPostIsAnswered429 ==
    arrival.nth > 0 =>
        IF arrival.nth <= 10 THEN arrival.passedOn
        ELSE arrival.status = 429 /\ ~arrival.passedOn

\* A POST body the claims call invalid: missing, no string, too short, too
\* long or with a prohibited term.
InvalidBody(value) ==
    \/ value.t # "string"
    \/ TrimmedLength(value.s) < 3
    \/ TrimmedLength(value.s) > 2000
    \/ HasProhibitedTerm(value.s)

\* A GET prompt the claims call invalid.
InvalidLength(prompt) ==
    TrimmedLength(prompt) < 3 \/ TrimmedLength(prompt) > 2000

Decoded(request) == request.result.name # "URIError"

CredentialAbsent(value) == value = JsUndefined \/ value = JsString(<<>>)

\* C5: when the account identifier or the API token is absent from the
\* configuration, generateImage fails with an AuthenticationError whose
\* message names a credential that is absent, and fetch is not called: no
\* request ever awaits the upstream call.
C5_MissingCredentialFailsBeforeFetch ==
    (CredentialAbsent(env.accountId) \/ CredentialAbsent(env.apiToken)) =>
        /\ \A slot \in Slots : inflight[slot].pc = "idle"
        /\ served.called =>
              /\ served.result.name = "AuthenticationError"
              /\ ~served.fetched
              /\ \/ /\ CredentialAbsent(env.accountId)
                    /\ served.result.message =
                          <<"CLOUDFLARE_ACCOUNT_ID environment variable is required">>
                 \/ /\ CredentialAbsent(env.apiToken)
                    /\ served.result.message =
                          <<"CLOUDFLARE_API_TOKEN environment variable is required">>

\* C5's case: the token alone is absent and a request reached generateImage.
C5_Witness ==
    /\ ~CredentialAbsent(env.accountId)
    /\ CredentialAbsent(env.apiToken)
    /\ served.called
    /\ served.result.name = "AuthenticationError"
    /\ served.result.message =
          <<"CLOUDFLARE_API_TOKEN environment variable is required">>

\* C6: the status of the response is a function of the kind of failure
\* alone, the same for POST and GET: AuthenticationError 401,
\* CloudflareAPIError 502, ValidationError 400, any other failure 500, each
\* with success false in a JSON body.  (No failure: 200, or in GET mode the
\* 500 of the catch block when the response headers cannot be set.)
C6_StatusIsAFunctionOfTheKind ==
    (served.called /\ served.response.sent) =>
        /\ served.result.name = "AuthenticationError"
              => served.response.status = 401
        /\ served.result.name = "CloudflareAPIError"
              => served.response.status = 502
        /\ served.result.name = "ValidationError"
              => served.response.status = 400
        /\ served.result.name \notin
                {"", "AuthenticationError", "CloudflareAPIError", "ValidationError"}
              => served.response.status = 500
        /\ served.result.name = ""
              => \/ served.response.status = 200 /\ served.response.success
                 \/ served.mode = "GET" /\ served.response.status = 500
        /\ served.response.status # 200
              => ~served.response.success /\ served.response.json

\* C6's case: a GET request whose generateImage failed for want of a
\* credential.
C6_Witness ==
    /\ served.mode = "GET"
    /\ served.called
    /\ served.result.name = "AuthenticationError"
    /\ served.response.status = 401
    /\ ~served.response.success

\* C7: status 401 both when a credential is missing and when the provider
\* rejects the configured credentials with a non-2xx response.
C7_RejectedCredentialsGive401 ==
    /\ ( /\ served.called
         /\ CredentialAbsent(env.accountId) \/ CredentialAbsent(env.apiToken) )
          => served.response.status = 401
    /\ ( /\ served.fetched
         /\ env.accountId = BadAccountId \/ env.apiToken = BadApiToken
         /\ served.outcome.type = "response"
         /\ ~served.outcome.ok )
          => served.response.status = 401

\* The message the claims expect of a failure response: the message of the
\* first structured error when there is one and it is not empty.
HasFirstMessage(body) ==
    /\ body.parses /\ body.nonNull /\ body.hasErrors
    /\ body.errors # <<>>
    /\ Head(body.errors).nonNull
    /\ Head(body.errors).message.t = "string"
    /\ Head(body.errors).message.s # <<>>

C11_EveryErrorResponseHasATimestamp ==
    (served.response.sent /\ served.response.status >= 400) =>
        /\ served.response.json
        /\ "timestamp" \in served.response.fields

\* The four ends of generateImage the claims name.
Kinds == {"Success", "Authentication", "UpstreamRejected", "Unexpected"}

IsKind(kind, result) ==
    CASE kind = "Success" -> result.name = ""
      [] kind = "Authentication" -> result.name = "AuthenticationError"
      [] kind = "UpstreamRejected" -> result.name = "CloudflareAPIError"
      [] OTHER ->
            /\ result.name = "Error"
            /\ Len(result.message) = 2
            /\ result.message[1] = "Image generation failed: "

\* A request the claims call validated.
PassedValidation(request) ==
    \/ request.mode = "POST" /\ ~InvalidBody(request.raw)
    \/ request.mode = "GET" /\ Decoded(request) /\ ~InvalidLength(request.prompt)

\* C13: every request that has passed validation, POST or GET, reaches
\* generateImage, which ends in exactly one of Success, Authentication,
\* UpstreamRejected and Unexpected ('Image generation failed: <original
\* message>') whatever the upstream call ends in: the image gives Success, a
\* non-2xx response UpstreamRejected, a network failure or a body that
\* cannot be read Unexpected; no exception leaves the handler, which has sent
\* its response when the upstream call is over.
C13_ValidatedRequestEndsClassified ==
    /\ PassedValidation(served) => served.called
    /\ served.called =>
          /\ Cardinality({kind \in Kinds : IsKind(kind, served.result)}) = 1
          /\ served.response.sent
          /\ ~served.fetched => IsKind("Authentication", served.result)
    /\ served.fetched =>
          /\ served.outcome.type = "reject" =>
                /\ IsKind("Unexpected", served.result)
                /\ served.result.message[2] = "fetch failed"
          /\ (served.outcome.type = "response" /\ ~served.outcome.ok) =>
                IsKind("UpstreamRejected", served.result)
          /\ (served.outcome.ok /\ ~served.outcome.readable) =>
                /\ IsKind("Unexpected", served.result)
                /\ served.result.message[2] = "Premature close"
          /\ (served.outcome.ok /\ served.outcome.readable) =>
                IsKind("Success", served.result)

\* C13's case: a GET request whose upstream call gave a 200 with a body
\* that could not be read is answered with status 500.
C13_Witness ==
    /\ served.mode = "GET"
    /\ served.fetched
    /\ served.outcome.ok
    /\ ~served.outcome.readable
    /\ IsKind("Unexpected", served.result)
    /\ served.response.sent
    /\ served.response.status = 500

(***************************************************************************)
(* The claim about the two routes together, under SpecModes.               *)
(***************************************************************************)
BothVerdicts == twin.post # "" /\ twin.get # ""

\* C14: the two routes differ in the prohibited-content check alone: a
\* prompt of trimmed length 3 to 2000 with a prohibited term in it is
\* forwarded to the upstream call when it comes through GET
\* /generate/:prompt and never when it comes through POST /generate; a
\* prompt without a prohibited term is forwarded by both or rejected by
\* both.
C14_ModesDifferInProhibitedContentOnly ==
    /\ ( /\ twin.raw.t = "string"
         /\ HasProhibitedTerm(twin.raw.s)
         /\ TrimmedLength(twin.raw.s) >= 3
         /\ TrimmedLength(twin.raw.s) <= 2000 ) =>
          /\ twin.get # "" => twin.get = "forwarded"
          /\ twin.post # "" => twin.post = "rejected"
    /\ ( /\ BothVerdicts
         /\ ~HasProhibitedTerm(twin.raw.s) ) =>
          /\ twin.post = twin.get
          /\ twin.post \in {"forwarded", "rejected"}

\* What does hold of the two routes: the same, of the prompts without "%".
ModesDifferWithoutPercent ==
    (\A i \in DOMAIN twin.raw.s : twin.raw.s[i] # "%") =>
        C14_ModesDifferInProhibitedContentOnly

====
